---------------------------- MODULE Spec2Model ----------------------------
(***************************************************************************)
(* Model of src/src/prometheus/Prometheus_client.py:                       *)
(* AsyncPrometheusQueryExecutor, its two coroutines run_query and          *)
(* run_range_query, and the part of httpx / asyncio they run on (the       *)
(* AsyncClient context manager, the awaited GET, its per-phase timeout,    *)
(* task cancellation, response.json(), print).                             *)
(*                                                                         *)
(* Python str values that the code only passes on are TLA+ strings; the    *)
(* response body, which the code decodes and formats, is a sequence of     *)
(* one-character strings.                                                  *)
(***************************************************************************)
EXTENDS Integers, Sequences, FiniteSets, TLC

(***************************************************************************)
(* Bounds of the model.                                                    *)
(***************************************************************************)
\* request_timeout is drawn from 1..MaxTimeout time units
MaxTimeout == 2
\* a response body arrives in at most MaxChunks reads before the last one
MaxChunks == 2

(***************************************************************************)
(* Python values.                                                          *)
(***************************************************************************)
None == [py |-> "None"]
PyBool(b) == [py |-> "bool", b |-> b]
PyInt(n) == [py |-> "int", n |-> n]
PyStr(s) == [py |-> "str", s |-> s]
PyList(xs) == [py |-> "list", items |-> xs]
PyDict(f) == [py |-> "dict", map |-> f]
EmptyMap == << >>

\* datetime objects carry their epoch seconds; any other start/end value
\* (the docstring asks for a UNIX timestamp) has no timestamp() method
Datetime(n) == [py |-> "datetime", epoch |-> n]
IsDatetime(x) == x.py = "datetime"

(***************************************************************************)
(* Texts (sequences of characters).                                        *)
(***************************************************************************)
Digit == <<"0", "1", "2", "3", "4", "5", "6", "7", "8", "9">>
DigitChars == {Digit[i] : i \in 1..10}
DigitValue(c) == (CHOOSE i \in 1..10 : Digit[i] = c) - 1
Whitespace == {" ", "\n", "\t", "\r"}

\* str(n) of a non-negative int
RECURSIVE IntText(_)
IntText(n) == IF n < 10 THEN <<Digit[n + 1]>>
              ELSE IntText(n \div 10) \o <<Digit[(n % 10) + 1]>>

StartsWith(s, i, w) ==
    /\ i + Len(w) - 1 <= Len(s)
    /\ \A k \in 1..Len(w) : s[i + k - 1] = w[k]

WordNull == <<"n", "u", "l", "l">>
WordTrue == <<"t", "r", "u", "e">>
WordFalse == <<"f", "a", "l", "s", "e">>

(***************************************************************************)
(* response.json(): json.loads of the body.  A parse yields                *)
(* [ok |-> TRUE, v |-> value, i |-> index after the value] or              *)
(* [ok |-> FALSE].                                                         *)
(***************************************************************************)
ParseFail == [ok |-> FALSE]
Parsed(v, i) == [ok |-> TRUE, v |-> v, i |-> i]

RECURSIVE SkipWs(_, _)
SkipWs(s, i) == IF i <= Len(s) /\ s[i] \in Whitespace THEN SkipWs(s, i + 1) ELSE i

\* digits from i on, most significant first, accumulated into acc
RECURSIVE ParseDigits(_, _, _)
ParseDigits(s, i, acc) ==
    IF i <= Len(s) /\ s[i] \in DigitChars
    THEN ParseDigits(s, i + 1, 10 * acc + DigitValue(s[i]))
    ELSE Parsed(PyInt(acc), i)

\* a JSON int: "0", or a non-zero digit followed by digits
ParseInt(s, i) ==
    IF s[i] = "0" THEN Parsed(PyInt(0), i + 1) ELSE ParseDigits(s, i, 0)

\* the characters of a string up to its closing quote (no escapes)
RECURSIVE ParseChars(_, _, _)
ParseChars(s, i, acc) ==
    IF i > Len(s) \/ s[i] = "\\" THEN ParseFail
    ELSE IF s[i] = "\"" THEN Parsed(acc, i + 1)
    ELSE ParseChars(s, i + 1, Append(acc, s[i]))

RECURSIVE ParseValue(_, _)
RECURSIVE ParseItems(_, _, _)
RECURSIVE ParseMembers(_, _, _)

\* after "[" and the items in acc: the next item, then "," or "]"
ParseItems(s, i, acc) ==
    LET r == ParseValue(s, i) IN
    IF ~r.ok THEN ParseFail
    ELSE LET j == SkipWs(s, r.i) IN
         IF j > Len(s) THEN ParseFail
         ELSE IF s[j] = "]" THEN Parsed(PyList(Append(acc, r.v)), j + 1)
         ELSE IF s[j] = "," THEN ParseItems(s, j + 1, Append(acc, r.v))
         ELSE ParseFail

\* after "{" and the members in acc: "key" : value, then "," or "}";
\* a repeated key keeps its last value
ParseMembers(s, i, acc) ==
    LET j == SkipWs(s, i) IN
    IF j > Len(s) \/ s[j] # "\"" THEN ParseFail
    ELSE LET k == ParseChars(s, j + 1, <<>>) IN
         IF ~k.ok THEN ParseFail
         ELSE LET c == SkipWs(s, k.i) IN
              IF c > Len(s) \/ s[c] # ":" THEN ParseFail
              ELSE LET r == ParseValue(s, c + 1) IN
                   IF ~r.ok THEN ParseFail
                   ELSE LET e == SkipWs(s, r.i)
                            m == (k.v :> r.v) @@ acc
                        IN IF e > Len(s) THEN ParseFail
                           ELSE IF s[e] = "}" THEN Parsed(PyDict(m), e + 1)
                           ELSE IF s[e] = "," THEN ParseMembers(s, e + 1, m)
                           ELSE ParseFail

ParseValue(s, i) ==
    LET j == SkipWs(s, i) IN
    IF j > Len(s) THEN ParseFail
    ELSE IF StartsWith(s, j, WordNull) THEN Parsed(None, j + 4)
    ELSE IF StartsWith(s, j, WordTrue) THEN Parsed(PyBool(TRUE), j + 4)
    ELSE IF StartsWith(s, j, WordFalse) THEN Parsed(PyBool(FALSE), j + 5)
    ELSE IF s[j] \in DigitChars THEN ParseInt(s, j)
    ELSE IF s[j] = "\""
         THEN LET r == ParseChars(s, j + 1, <<>>) IN
              IF r.ok THEN Parsed(PyStr(r.v), r.i) ELSE ParseFail
    ELSE IF s[j] = "["
         THEN LET k == SkipWs(s, j + 1) IN
              IF k <= Len(s) /\ s[k] = "]" THEN Parsed(PyList(<<>>), k + 1)
              ELSE ParseItems(s, j + 1, <<>>)
    ELSE IF s[j] = "{"
         THEN LET k == SkipWs(s, j + 1) IN
              IF k <= Len(s) /\ s[k] = "}" THEN Parsed(PyDict(EmptyMap), k + 1)
              ELSE ParseMembers(s, j + 1, EmptyMap)
    ELSE ParseFail

\* json.loads(text): the value, or JSONDecodeError when the text is not one
\* JSON value followed only by whitespace
JsonLoads(s) ==
    LET r == ParseValue(s, 1) IN
    IF r.ok /\ SkipWs(s, r.i) > Len(s) THEN [ok |-> TRUE, v |-> r.v] ELSE ParseFail

(***************************************************************************)
(* Inputs: the arguments callers pass and the answers servers give.        *)
(***************************************************************************)
TextNull == <<"n", "u", "l", "l">>
TextEmptyObject == <<"{", "}">>
TextSuccess == <<"{", "\"", "s", "t", "a", "t", "u", "s", "\"", ":", "\"", "s", "u", "c", "c", "e", "s", "s", "\"", ",", "\"", "d", "a", "t", "a", "\"", ":", "{", "}", "}">>
TextList == <<"[", "1", ",", " ", "2", "0", "]">>
TextNotFound == <<"N", "o", "t", " ", "F", "o", "u", "n", "d">>
TextTruncated == <<"{", "\"", "s", "t", "a", "t", "u", "s", "\"", ":">>
TextEmpty == << >>

\* httpx.Headers: header names are matched case-insensitively, kept lowercased
NoHeaders == << >>
WithLocation(url) == ("location" :> PyStr(url))
LocationA == "http://example/redirect"
LocationB == "https://other.example/login?next=/api/v1/query"

BaseUrls == {"https://prometheus.main2.staging.riskxint.com", "http://localhost:9090"}

\* one call at a time, wide inputs
Wide == [ queries  |-> {"up", "sum(kafka_log_log_size{ClusterName='dynamic'} > 0) by (topic)"},
          starts   |-> {Datetime(0), Datetime(86400), PyInt(1700000000)},
          ends     |-> {Datetime(0), Datetime(86400), PyInt(1700000000)},
          steps    |-> {"1m", "5m"},
          statuses |-> {200, 301, 302, 404, 503},
          texts    |-> {TextNull, TextEmptyObject, TextSuccess, TextList,
                        TextNotFound, TextTruncated, TextEmpty},
          headers  |-> {NoHeaders, WithLocation(LocationA), WithLocation(LocationB)} ]

\* two concurrent calls, narrow inputs; each task asks its own query
Narrow(t) == [ queries  |-> {IF t = "t1" THEN "up" ELSE "down"},
               starts   |-> {Datetime(0), PyInt(1700000000)},
               ends     |-> {Datetime(86400)},
               steps    |-> {"1m"},
               statuses |-> {200, 302, 404},
               texts    |-> {TextNull, TextEmptyObject, TextNotFound},
               headers  |-> {WithLocation(LocationA)} ]

Tasks == {"t1", "t2"}

(***************************************************************************)
(* State.                                                                  *)
(***************************************************************************)
VARIABLES
    executor,   \* self: prometheus_base_url, request_timeout
    pc,         \* per task: where its coroutine is
    call,       \* per task: the method called and its arguments
    params,     \* per task: the local dict params of run_range_query
    client,     \* per task: the AsyncClient of its async with block
    sent,       \* per task: the requests its client has transmitted
    net,        \* per task: the exchange it awaits, and for how long
    response,   \* per task: the local variable response
    result,     \* per task: what the coroutine returned or raised
    stdout      \* what print has written

vars == <<executor, pc, call, params, client, sent, net, response, result, stdout>>

Return(v) == [kind |-> "return", value |-> v]
Raise(exc, args) == [kind |-> "raise", exc |-> exc, args |-> args]
Pending == [kind |-> "pending"]

Unopened == [state |-> "unopened"]
Opened(timeout) == [state |-> "open", timeout |-> timeout]
Closed(timeout) == [state |-> "closed", timeout |-> timeout]

\* the exchange a task awaits: the request given to client.get, the wait it
\* is in, how long that wait has lasted, the parts of the body received, and
\* the time since the call began
NotAwaiting(e) ==
    [phase |-> "none", idle |-> 0, chunks |-> 0, elapsed |-> e, request |-> None]
Connecting(req) ==
    [phase |-> "connect", idle |-> 0, chunks |-> 0, elapsed |-> 0, request |-> req]

\* __init__(prometheus_base_url, request_timeout), no task started yet.
\* request_timeout (10.0 seconds unless given) is counted in time units.
Constructed(urls) ==
    /\ \E url \in urls, timeout \in 1..MaxTimeout :
           executor = [prometheus_base_url |-> url, request_timeout |-> timeout]
    /\ pc = [t \in Tasks |-> "idle"]
    /\ call = [t \in Tasks |-> None]
    /\ params = [t \in Tasks |-> None]
    /\ client = [t \in Tasks |-> Unopened]
    /\ sent = [t \in Tasks |-> << >>]
    /\ net = [t \in Tasks |-> NotAwaiting(0)]
    /\ response = [t \in Tasks |-> None]
    /\ result = [t \in Tasks |-> Pending]
    /\ stdout = << >>

Init == Constructed(BaseUrls)
InitConcurrent == Constructed({"http://localhost:9090"})

(***************************************************************************)
(* The request each method hands to client.get.                            *)
(***************************************************************************)
\* run_query: client.get(url, params={'query': query}); httpx does not
\* follow redirects unless asked to
Request_run_query(self, query) ==
    [ method |-> "GET",
      url |-> self.prometheus_base_url \o "/api/v1/query",
      params |-> ("query" :> query),
      follow_redirects |-> FALSE ]

\* run_range_query as a range query: /api/v1/query_range with params=params
Request_run_range_query_range(self, query, p) ==
    [ method |-> "GET",
      url |-> self.prometheus_base_url \o "/api/v1/query_range",
      params |-> ("query" :> p.query) @@ ("start" :> p.start) @@ ("end" :> p.end)
                     @@ ("step" :> p.step),
      follow_redirects |-> FALSE ]

\* run_range_query: client.get(url, params={'query': query}, follow_redirects=False)
Request_run_range_query(self, query, p) ==
    [ method |-> "GET",
      url |-> self.prometheus_base_url \o "/api/v1/query",
      params |-> ("query" :> query),
      follow_redirects |-> FALSE ]

\* the dict params of run_range_query; timestamp() exists on datetime only
Params(query, start, end, step) ==
    IF IsDatetime(start) /\ IsDatetime(end)
    THEN [ok |-> TRUE,
          v |-> [query |-> query, start |-> start.epoch, end |-> end.epoch, step |-> step]]
    ELSE [ok |-> FALSE]

(***************************************************************************)
(* What each method does with the response.                                *)
(***************************************************************************)
HeaderGet(headers, name) == IF name \in DOMAIN headers THEN headers[name] ELSE None

\* str(v) for the values print is given
Str(v) == IF v.py = "str" THEN v.s ELSE "None"

\* print(a, b): the arguments separated by a space
PrintLine(a, b) == a \o " " \o b

\* f"Failed to fetch data: {response.status_code}, {response.text}"
FailedToFetch == <<"F", "a", "i", "l", "e", "d", " ", "t", "o", " ", "f", "e", "t", "c", "h", " ", "d", "a", "t", "a", ":", " ">>
FailMessage(status_code, text) == FailedToFetch \o IntText(status_code) \o <<",", " ">> \o text

Json(resp) ==
    LET j == JsonLoads(resp.text) IN
    IF j.ok THEN Return(j.v) ELSE Raise("JSONDecodeError", << >>)

\* run_query returning response.text in place of response.json()
Outcome_run_query_text(resp) ==
    IF resp.status_code = 200 THEN Return(PyStr(resp.text))
    ELSE Raise("Exception", FailMessage(resp.status_code, resp.text))

\* run_query leaving the body out of the error message
Outcome_run_query_no_body(resp) ==
    IF resp.status_code = 200 THEN Json(resp)
    ELSE Raise("Exception", FailMessage(resp.status_code, << >>))

Outcome_run_query(resp) ==
    IF resp.status_code = 200 THEN Json(resp)
    ELSE Raise("Exception", FailMessage(resp.status_code, resp.text))

\* run_range_query without its 302 branch
Outcome_run_range_query_no_302(resp) ==
    IF resp.status_code = 200 THEN Json(resp)
    ELSE Raise("Exception", FailMessage(resp.status_code, resp.text))

\* run_range_query without the return in its 200 branch
Outcome_run_range_query_no_return(resp) ==
    IF resp.status_code = 302 THEN Return(None)
    ELSE IF resp.status_code = 200 THEN Return(None)
    ELSE Raise("Exception", FailMessage(resp.status_code, resp.text))

\* run_range_query raising for 5xx only
Outcome_run_range_query_5xx(resp) ==
    IF resp.status_code = 302 THEN Return(None)
    ELSE IF resp.status_code = 200 THEN Json(resp)
    ELSE IF resp.status_code >= 500
         THEN Raise("Exception", FailMessage(resp.status_code, resp.text))
    ELSE Return(None)

Outcome_run_range_query(resp) ==
    IF resp.status_code = 302 THEN Return(None)
    ELSE IF resp.status_code = 200 THEN Json(resp)
    ELSE Raise("Exception", FailMessage(resp.status_code, resp.text))

Printed_run_range_query(resp) ==
    IF resp.status_code = 302
    THEN <<PrintLine("Redirected to:", Str(HeaderGet(resp.headers, "location")))>>
    ELSE << >>

Outcome(c, resp) ==
    IF c.op = "run_query" THEN Outcome_run_query(resp) ELSE Outcome_run_range_query(resp)

Printed(c, resp) ==
    IF c.op = "run_query" THEN << >> ELSE Printed_run_range_query(resp)

(***************************************************************************)
(* The coroutines.  A task runs without interruption from one await to     *)
(* the next; the only await that suspends it is the GET.                   *)
(***************************************************************************)
\* async with httpx.AsyncClient(timeout=self.request_timeout) as client,
\* then client.get(...) up to the point where it waits for the network
Enter(t, c, req) ==
    /\ call' = [call EXCEPT ![t] = c]
    /\ client' = [client EXCEPT ![t] = Opened(executor.request_timeout)]
    /\ net' = [net EXCEPT ![t] = Connecting(req)]
    /\ pc' = [pc EXCEPT ![t] = "await_get"]
    /\ UNCHANGED <<executor, sent, response, result, stdout>>

run_query(t, query) ==
    /\ pc[t] = "idle"
    /\ Enter(t, [op |-> "run_query", query |-> query, start |-> None, end |-> None,
                 step |-> None], Request_run_query(executor, query))
    /\ UNCHANGED params

run_range_query(t, query, start, end, step) ==
    /\ pc[t] = "idle"
    /\ LET c == [op |-> "run_range_query", query |-> query, start |-> start, end |-> end,
                 step |-> PyStr(step)]
           p == Params(query, start, end, step)
       IN IF p.ok
          THEN /\ params' = [params EXCEPT ![t] = p.v]
               /\ Enter(t, c, Request_run_range_query(executor, query, p.v))
          ELSE \* start.timestamp() or end.timestamp() raises before the async with
               /\ call' = [call EXCEPT ![t] = c]
               /\ result' = [result EXCEPT ![t] = Raise("AttributeError", << >>)]
               /\ pc' = [pc EXCEPT ![t] = "done"]
               /\ UNCHANGED <<executor, params, client, sent, net, response, stdout>>

(***************************************************************************)
(* The awaited GET.  AsyncClient(timeout=T) bounds each wait of the        *)
(* exchange by T (httpx.Timeout: connect, read), not the whole exchange.   *)
(***************************************************************************)
Awaiting(t) == pc[t] = "await_get"
Min(a, b) == IF a < b THEN a ELSE b
Progress(n) == [n EXCEPT !.idle = 0]

\* the connection is made and the request goes out
Connect(t) ==
    /\ Awaiting(t)
    /\ net[t].phase = "connect"
    /\ net[t].idle < client[t].timeout
    /\ sent' = [sent EXCEPT ![t] = Append(@, net[t].request)]
    /\ net' = [net EXCEPT ![t] = [Progress(@) EXCEPT !.phase = "read"]]
    /\ UNCHANGED <<executor, pc, call, params, client, response, result, stdout>>

\* a part of the response arrives, more is to come
Chunk(t) ==
    /\ Awaiting(t)
    /\ net[t].phase = "read"
    /\ net[t].idle < client[t].timeout
    /\ net[t].chunks < MaxChunks
    /\ net' = [net EXCEPT ![t] = [Progress(@) EXCEPT !.chunks = @ + 1]]
    /\ UNCHANGED <<executor, pc, call, params, client, sent, response, result, stdout>>

\* time passes for every task that waits; a wait that has lasted the
\* timeout ends in Timeout, not in more waiting.  elapsed counts the time
\* since the call began, up to one unit past the timeout
Tick ==
    /\ \E t \in Tasks : Awaiting(t)
    /\ \A t \in Tasks : Awaiting(t) => net[t].idle < client[t].timeout
    /\ net' = [t \in Tasks |->
                 IF Awaiting(t)
                 THEN [net[t] EXCEPT !.idle = @ + 1,
                                     !.elapsed = Min(@ + 1, client[t].timeout + 1)]
                 ELSE net[t]]
    /\ UNCHANGED <<executor, pc, call, params, client, sent, response, result, stdout>>

\* the await ends by raising exc: the body of the async with is left
GetRaises(t, exc) ==
    /\ result' = [result EXCEPT ![t] = Raise(exc, << >>)]
    /\ net' = [net EXCEPT ![t] = NotAwaiting(@.elapsed)]
    /\ pc' = [pc EXCEPT ![t] = "aexit"]
    /\ UNCHANGED <<executor, call, params, client, sent, response, stdout>>

\* httpx.ConnectTimeout / httpx.ReadTimeout
Timeout(t) ==
    /\ Awaiting(t)
    /\ net[t].idle = client[t].timeout
    /\ GetRaises(t, "TimeoutException")

\* httpx.ConnectError, httpx.ReadError, ...
TransportError(t) ==
    /\ Awaiting(t)
    /\ net[t].idle < client[t].timeout
    /\ GetRaises(t, "TransportError")

\* task.cancel(): asyncio.CancelledError is raised at the await
Cancel(t) ==
    /\ Awaiting(t)
    /\ GetRaises(t, "CancelledError")

IsRedirect(status_code) == status_code \in {301, 302, 303, 307, 308}

\* the last part of the response arrives.  A client that follows
\* redirects requests the Location of a 3xx response instead of returning
\* it; otherwise client.get returns the response and the task runs on to
\* the end of the async with body.
Respond(t, status_code, text, headers) ==
    /\ Awaiting(t)
    /\ net[t].phase = "read"
    /\ net[t].idle < client[t].timeout
    /\ LET req == net[t].request
           resp == [status_code |-> status_code, text |-> text, headers |-> headers]
       IN IF req.follow_redirects /\ IsRedirect(status_code) /\ "location" \in DOMAIN headers
          THEN LET next == [req EXCEPT !.url = headers["location"].s, !.params = << >>]
               IN /\ sent' = [sent EXCEPT ![t] = Append(@, next)]
                  /\ net' = [net EXCEPT ![t] =
                               [Progress(@) EXCEPT !.chunks = 0, !.request = next]]
                  /\ UNCHANGED <<pc, response, result, stdout>>
          ELSE /\ response' = [response EXCEPT ![t] = resp]
               /\ result' = [result EXCEPT ![t] = Outcome(call[t], resp)]
               /\ stdout' = stdout \o Printed(call[t], resp)
               /\ net' = [net EXCEPT ![t] = NotAwaiting(@.elapsed)]
               /\ pc' = [pc EXCEPT ![t] = "aexit"]
               /\ UNCHANGED sent
    /\ UNCHANGED <<executor, call, params, client>>

\* one client shared by the calls, closed by the first call to leave its block
aexit_shared_client(t) ==
    /\ pc[t] = "aexit"
    /\ client' = [u \in Tasks |->
                     IF client[u].state = "open" THEN Closed(client[u].timeout) ELSE client[u]]
    /\ pc' = [pc EXCEPT ![t] = "done"]
    /\ UNCHANGED <<executor, call, params, sent, net, response, result, stdout>>

\* a client closed only when the body of the with block ends normally
aexit_on_return_only(t) ==
    /\ pc[t] = "aexit"
    /\ client' = [client EXCEPT ![t] =
                     IF result[t].kind = "return" THEN Closed(@.timeout) ELSE @]
    /\ pc' = [pc EXCEPT ![t] = "done"]
    /\ UNCHANGED <<executor, call, params, sent, net, response, result, stdout>>

\* AsyncClient.__aexit__: the client and its connections are closed, then
\* the coroutine returns or raises to its caller
aexit(t) ==
    /\ pc[t] = "aexit"
    /\ client' = [client EXCEPT ![t] = Closed(@.timeout)]
    /\ pc' = [pc EXCEPT ![t] = "done"]
    /\ UNCHANGED <<executor, call, params, sent, net, response, result, stdout>>

(***************************************************************************)
(* Specifications.                                                         *)
(***************************************************************************)
Step(t, in) ==
    \/ \E q \in in.queries : run_query(t, q)
    \/ \E q \in in.queries, s \in in.starts, e \in in.ends, st \in in.steps :
           run_range_query(t, q, s, e, st)
    \/ Connect(t)
    \/ Chunk(t)
    \/ \E sc \in in.statuses, tx \in in.texts, h \in in.headers : Respond(t, sc, tx, h)
    \/ Timeout(t)
    \/ TransportError(t)
    \/ Cancel(t)
    \/ aexit(t)

\* one call, wide inputs
Next == Step("t1", Wide) \/ Tick
Spec == Init /\ [][Next]_vars

\* two tasks calling the same executor concurrently, narrow inputs
NextConcurrent == (\E t \in Tasks : Step(t, Narrow(t))) \/ Tick
SpecConcurrent == InitConcurrent /\ [][NextConcurrent]_vars

(***************************************************************************)
(* Properties.                                                             *)
(***************************************************************************)
Done(t) == pc[t] = "done"
Answered(t) == Done(t) /\ response[t] # None
Instant(t) == call[t].op = "run_query"
Range(t) == call[t].op = "run_range_query"

\* bodies and the JSON values they denote
KeyStatus == <<"s", "t", "a", "t", "u", "s">>
KeyData == <<"d", "a", "t", "a">>
ValueSuccess == <<"s", "u", "c", "c", "e", "s", "s">>
JsonBodies ==
    { [text |-> TextNull, value |-> None],
      [text |-> TextEmptyObject, value |-> PyDict(EmptyMap)],
      [text |-> TextSuccess,
       value |-> PyDict((KeyStatus :> PyStr(ValueSuccess)) @@ (KeyData :> PyDict(EmptyMap)))],
      [text |-> TextList, value |-> PyList(<<PyInt(1), PyInt(20)>>)] }

\* the status code and body text an error message of the form
\* "Failed to fetch data: <digits>, <text>" exposes
Exposed(message) ==
    IF ~StartsWith(message, 1, FailedToFetch) THEN [ok |-> FALSE]
    ELSE LET d == ParseDigits(message, Len(FailedToFetch) + 1, 0) IN
         IF d.i = Len(FailedToFetch) + 1 \/ ~StartsWith(message, d.i, <<",", " ">>)
         THEN [ok |-> FALSE]
         ELSE [ok |-> TRUE, status_code |-> d.v.n,
               text |-> SubSeq(message, d.i + 2, Len(message))]

FailsWith(t, status_code, text) ==
    /\ result[t].kind = "raise"
    /\ result[t].exc = "Exception"
    /\ Exposed(result[t].args) = [ok |-> TRUE, status_code |-> status_code, text |-> text]

\* C1: run_query answered with status 200 and a JSON body returns the value
\* the body denotes, and raises nothing.
C1_InstantReturnsBody ==
    \A t \in Tasks : \A b \in JsonBodies :
        (Answered(t) /\ Instant(t) /\ response[t].status_code = 200
            /\ response[t].text = b.text)
        => result[t] = Return(b.value)

C1_Witness ==
    /\ Answered("t1") /\ Instant("t1")
    /\ response["t1"].status_code = 200
    /\ response["t1"].text = TextSuccess
    /\ result["t1"].kind = "return"
    /\ result["t1"].value.map[KeyStatus] = PyStr(ValueSuccess)

\* C2: run_query answered with any status other than 200 (3xx included)
\* returns nothing and raises an error exposing exactly that status and body.
C2_InstantFailsWithStatusAndBody ==
    \A t \in Tasks :
        (Answered(t) /\ Instant(t) /\ response[t].status_code # 200)
        => FailsWith(t, response[t].status_code, response[t].text)

C2_Witness ==
    /\ Answered("t1") /\ Instant("t1")
    /\ response["t1"].status_code = 302
    /\ response["t1"].text = TextNotFound
    /\ FailsWith("t1", 302, TextNotFound)

\* C3: run_range_query answered with status 302 and a Location header L
\* raises nothing: it returns None, and what it reports is exactly L.
C3_RangeRedirectReported ==
    \A t \in Tasks : \A L \in {LocationA, LocationB} :
        (Answered(t) /\ Range(t) /\ response[t].status_code = 302
            /\ response[t].headers = WithLocation(L))
        => /\ result[t] = Return(None)
           /\ stdout = <<"Redirected to: " \o L>>

C3_Witness ==
    /\ Answered("t1") /\ Range("t1")
    /\ response["t1"].status_code = 302
    /\ response["t1"].headers = WithLocation(LocationA)
    /\ result["t1"].kind = "return"
    /\ stdout = <<"Redirected to: http://example/redirect">>

C5_RangeReturnsBody ==
    \A t \in Tasks : \A b \in JsonBodies :
        (Answered(t) /\ Range(t) /\ response[t].status_code = 200
            /\ response[t].text = b.text)
        => result[t] = Return(b.value)

C5_Witness ==
    /\ Answered("t1") /\ Range("t1")
    /\ response["t1"].status_code = 200
    /\ response["t1"].text = TextSuccess
    /\ call["t1"].step = PyStr("5m")
    /\ result["t1"].kind = "return"
    /\ result["t1"].value.map[KeyData] = PyDict(EmptyMap)

\* C6: run_range_query answered with a status other than 200 and 302 returns
\* nothing and raises an error carrying that status and body.
C6_RangeFailsWithStatusAndBody ==
    \A t \in Tasks :
        (Answered(t) /\ Range(t) /\ response[t].status_code \notin {200, 302})
        => FailsWith(t, response[t].status_code, response[t].text)

C6_Witness ==
    /\ Answered("t1") /\ Range("t1")
    /\ response["t1"].status_code = 503
    /\ response["t1"].text = TextTruncated
    /\ FailsWith("t1", 503, TextTruncated)

\* C7: a client is open only while its call is inside the async with block:
\* once a call has ended, however it ended, its client is no longer open.
C7_ClientReleased ==
    \A t \in Tasks :
        /\ Done(t) => client[t].state # "open"
        /\ client[t].state = "open" => pc[t] \in {"await_get", "aexit"}

C7_Witness ==
    /\ Done("t1") /\ result["t1"] = Raise("CancelledError", << >>)
    /\ client["t1"].state = "closed"
    /\ Done("t2") /\ result["t2"] = Raise("TimeoutException", << >>)
    /\ client["t2"].state = "closed"

\* the exchange of t's call took longer than the client's timeout
Late(t) == client[t].state # "unopened" /\ net[t].elapsed > client[t].timeout
Raised(t, exc) == result[t].kind = "raise" /\ result[t].exc = exc

\* C8: a call whose response has not arrived within the configured timeout
\* ends with a timeout failure, and its response is never classified by
\* status code (a call the caller cancelled or the transport broke aside).
C8_LateCallTimesOut ==
    \A t \in Tasks :
        (Done(t) /\ Late(t) /\ ~Raised(t, "CancelledError") /\ ~Raised(t, "TransportError"))
        => Raised(t, "TimeoutException") /\ response[t] = None

\* C9: concurrent calls do not interfere.  Each call's outcome is the one
\* its own arguments and its own response give, its requests carry its own
\* query, its client is open exactly while it is itself inside its
\* async with block, and no step changes the executor's base URL or timeout.
C9_OwnState ==
    \A t \in Tasks :
        /\ Answered(t) => result[t] = Outcome(call[t], response[t])
        /\ \A i \in DOMAIN sent[t] :
              /\ sent[t][i].params["query"] = call[t].query
              /\ sent[t][i].url = executor.prometheus_base_url \o "/api/v1/query"
        /\ pc[t] = "idle" => client[t].state = "unopened"
        /\ pc[t] \in {"await_get", "aexit"} => client[t] = Opened(executor.request_timeout)
        /\ Done(t) => client[t].state = IF Raised(t, "AttributeError") THEN "unopened" ELSE "closed"

C9_CallsIndependent == [](C9_OwnState) /\ [][executor' = executor]_vars

C9_Witness ==
    /\ pc["t1"] = "aexit" /\ pc["t2"] = "aexit"
    /\ response["t1"] # None /\ response["t2"] # None
    /\ Instant("t1") /\ Range("t2")
    /\ sent["t1"][1].params["query"] = "up"
    /\ sent["t2"][1].params["query"] = "down"
    /\ response["t1"].status_code = 404 /\ response["t1"].text = TextNotFound
    /\ response["t2"].status_code = 200 /\ response["t2"].text = TextEmptyObject
    /\ FailsWith("t1", 404, TextNotFound)
    /\ result["t2"] = Return(PyDict(EmptyMap))

\* C10: every completed call has returned a value or raised, and what
\* run_range_query gives its caller on a 302 differs from what it gives on
\* every 200 response with a JSON body.
C10_OutcomesDistinguishable ==
    /\ \A t \in Tasks : Done(t) => result[t].kind \in {"return", "raise"}
    /\ \A t, u \in Tasks :
          (/\ Answered(t) /\ Range(t) /\ response[t].status_code = 302
           /\ Answered(u) /\ Range(u) /\ response[u].status_code = 200
           /\ JsonLoads(response[u].text).ok)
          => result[t] # result[u]

=============================================================================
